---- MODULE Spec2Model ----
(***************************************************************************)
(* ComicAI: story -> panel descriptions -> panel images -> comic strip.    *)
(* Text is modelled as sequences of one-character strings, images as       *)
(* records carrying their size and origin.                                 *)
(***************************************************************************)
EXTENDS Integers, Sequences, FiniteSets, TLC

VARIABLES
    story,          \* story text handed to the splitter
    num_panels,     \* requested panel count
    words,          \* story.split() as computed by the splitter
    spans,          \* <<start_idx, end_idx>> of every loop iteration
    panels,         \* the list returned by the splitter
    splitPc,        \* "input" | "utils" | "fallback"
    probe,          \* outcome of GET /api/tags seen by is_service_available
    reply,          \* outcome of POST /api/generate seen by _call_llm_api
    path,           \* branch generate_panel_descriptions returned through
    raised,         \* exception that left the call, "none" if it returned
    llmPc,          \* "input" | "done"
    generator,      \* the image generator object: class, api_url, pipeline
    request,        \* arguments of generate_image / generate_comic_panels
    collab,         \* what the image collaborator did at each call
    sent,           \* prompts handed to the image collaborator, in order
    images,         \* images returned
    imgRaised,      \* exception that left the call, "none" if it returned
    log,            \* generate_image calls and sleeps of the panel loop, in order
    imgPc,          \* "input" | "image" | "panels" | "combined"
    diffusion_available,    \* LOCAL_DIFFUSION_AVAILABLE: both imports succeeded
    session,        \* st.session_state.comic_data
    api_url,        \* api_url argument of generate_comic
    local_generator,    \* the LocalImageGenerator built by generate_comic
    provider,       \* branch of generate_comic that makes the images
    error,          \* exception caught by the handler of generate_comic
    appPc,          \* position of the run of generate_comic
    layout_style,   \* layout argument of combine_panels_into_comic
    combined_image, \* the comic strip built by combine_panels_into_comic
    mainPc,         \* position of the script run of main: "running" | "displayed"
    validation,     \* <<is_valid, error_msg>> returned by validate_story_input
    error_str,      \* str(e) of the exception caught by the handler
    error_msg,      \* format_error_message(e), shown by the handler
    loads           \* from_pretrained has loaded the pipeline in this process: "never",
                    \* "once" or "again" (more than once)

splitVars == <<story, num_panels, words, spans, panels, splitPc>>

llmVars == <<probe, reply, path, raised, llmPc>>

imgVars == <<generator, request, collab, sent, images, imgRaised, log, imgPc>>

appVars == <<diffusion_available, session, api_url, local_generator, provider, error, appPc,
             validation, error_str, error_msg, loads>>

pageVars == <<layout_style, combined_image, mainPc>>

vars == <<splitVars, llmVars, imgVars, appVars, pageVars>>

(***************************************************************************)
(* Bounds and program constants                                            *)
(***************************************************************************)
MaxStoryLen == 11       \* enumerated stories have 0..MaxStoryLen characters
MaxPanels == 6
MinStoryChars == 10
MaxStoryChars == 1000
FallbackEcho == 30

StoryChars == {"a", " "}

Min(a, b) == IF a < b THEN a ELSE b

(***************************************************************************)
(* Python string and list primitives                                       *)
(***************************************************************************)
IsSpace(c) == c \in {" ", "\n", "\t"}

\* seq[a:b] for 0 <= a, 0 <= b: indices are clamped to the length
Slice(seq, a, b) == SubSeq(seq, Min(a, Len(seq)) + 1, Min(b, Len(seq)))

\* str.lstrip(): s from its first character that is not whitespace
LStrip(s) ==
    IF \A k \in 1..Len(s) : IsSpace(s[k]) THEN <<>>
    ELSE LET first == CHOOSE j \in 1..Len(s) :
                         ~IsSpace(s[j]) /\ \A h \in 1..(j - 1) : IsSpace(s[h])
         IN  SubSeq(s, first, Len(s))

\* str.rstrip(): s up to its last character that is not whitespace
RStrip(s) ==
    IF \A k \in 1..Len(s) : IsSpace(s[k]) THEN <<>>
    ELSE LET last == CHOOSE j \in 1..Len(s) :
                        ~IsSpace(s[j]) /\ \A h \in (j + 1)..Len(s) : IsSpace(s[h])
         IN  SubSeq(s, 1, last)

\* str.strip()
Strip(s) == RStrip(LStrip(s))

RECURSIVE SplitFrom(_, _, _, _)
SplitFrom(s, i, cur, acc) ==
    IF i > Len(s)
    THEN IF cur = <<>> THEN acc ELSE Append(acc, cur)
    ELSE IF IsSpace(s[i])
         THEN SplitFrom(s, i + 1, <<>>, IF cur = <<>> THEN acc ELSE Append(acc, cur))
         ELSE SplitFrom(s, i + 1, Append(cur, s[i]), acc)

RECURSIVE SplitOnFrom(_, _, _, _, _)
SplitOnFrom(s, sep, i, cur, acc) ==
    IF i > Len(s) THEN Append(acc, cur)
    ELSE IF s[i] = sep
         THEN SplitOnFrom(s, sep, i + 1, <<>>, Append(acc, cur))
         ELSE SplitOnFrom(s, sep, i + 1, Append(cur, s[i]), acc)

\* str.split(sep) for a one-character sep: empty pieces are kept
SplitOn(s, sep) == SplitOnFrom(s, sep, 1, <<>>, <<>>)

\* Mutant: str.split(" "), which yields an empty word between two adjacent spaces.
SplitSingleSpace(s) == SplitOn(s, " ")

\* str.split(): maximal runs of non-whitespace characters
Split(s) == SplitFrom(s, 1, <<>>, <<>>)

RECURSIVE Join(_)
\* " ".join(ws)
Join(ws) ==
    IF ws = <<>> THEN <<>>
    ELSE IF Len(ws) = 1 THEN ws[1]
    ELSE ws[1] \o <<" ">> \o Join(Tail(ws))

\* s.startswith(p)
StartsWith(s, p) == Len(s) >= Len(p) /\ SubSeq(s, 1, Len(p)) = p

\* c in s, for a one-character c
Contains(s, c) == \E i \in 1..Len(s) : s[i] = c

\* s.split(c, 1)[1] for s containing c: what follows the first c
AfterFirst(s, c) ==
    LET i == CHOOSE j \in 1..Len(s) : s[j] = c /\ \A h \in 1..(j - 1) : s[h] # c
    IN  SubSeq(s, i + 1, Len(s))

DigitChars == <<"0", "1", "2", "3", "4", "5", "6", "7", "8", "9">>

RECURSIVE IntToStr(_)
\* str(k) for k >= 0
IntToStr(k) ==
    IF k < 10 THEN <<DigitChars[k + 1]>>
    ELSE IntToStr(k \div 10) \o <<DigitChars[(k % 10) + 1]>>

(***************************************************************************)
(* utils.validate_story_input                                              *)
(***************************************************************************)
\* The error messages, as sequences of pieces of text.
MsgEnterStory == <<"Please enter a story or idea.">>

MsgTooShort == <<"Story must be ", "at least 10 characters", " long.">>

MsgTooLong == <<"Story is too long. Please keep it ", "under 1000 characters", ".">>

\* Mutant: the upper limit is tested with >=.
validate_story_input_below_max(story_text) ==
    IF story_text = <<>> \/ Strip(story_text) = <<>> THEN <<FALSE, MsgEnterStory>>
    ELSE IF Len(Strip(story_text)) < MinStoryChars THEN <<FALSE, MsgTooShort>>
    ELSE IF Len(story_text) >= MaxStoryChars THEN <<FALSE, MsgTooLong>>
    ELSE <<TRUE, <<>>>>

\* Mutant: the lower limit is tested before the blank story.
validate_story_input_short_first(story_text) ==
    IF Len(Strip(story_text)) < MinStoryChars THEN <<FALSE, MsgTooShort>>
    ELSE IF story_text = <<>> \/ Strip(story_text) = <<>> THEN <<FALSE, MsgEnterStory>>
    ELSE IF Len(story_text) > MaxStoryChars THEN <<FALSE, MsgTooLong>>
    ELSE <<TRUE, <<>>>>

\* returns <<is_valid, error_message>>
validate_story_input(story_text) ==
    IF story_text = <<>> \/ Strip(story_text) = <<>> THEN <<FALSE, MsgEnterStory>>
    ELSE IF Len(Strip(story_text)) < MinStoryChars THEN <<FALSE, MsgTooShort>>
    ELSE IF Len(story_text) > MaxStoryChars THEN <<FALSE, MsgTooLong>>
    ELSE <<TRUE, <<>>>>

(***************************************************************************)
(* utils.format_error_message: error_type is type(error).__name__, text is *)
(* str(error); messages are sequences of pieces of text                    *)
(***************************************************************************)
DedicatedErrors == {"ConnectionError", "TimeoutError", "ValueError", "RuntimeError"}

error_messages ==
    [ConnectionError |-> <<"Unable to connect",
                           " to AI service. Please check your internet connection.">>,
     TimeoutError |-> <<"Request timed out. Please try again.">>,
     ValueError |-> <<"Invalid input provided", ". Please check your story text.">>,
     RuntimeError |-> <<"An error occurred while processing your request. Please try again.">>]

format_error_message(error_type, text) ==
    IF error_type \in DedicatedErrors THEN error_messages[error_type]
    ELSE <<"An ", "unexpected error occurred", ": ">> \o text

(***************************************************************************)
(* The word-count partition shared by utils.split_story_into_panels and    *)
(* LLMHandler._fallback_panel_generation                                   *)
(***************************************************************************)
\* Mutant: the quotient is rounded up instead of down.
words_per_panel_ceil(ws, n) == (Len(ws) + n - 1) \div n

words_per_panel(ws, n) == Len(ws) \div n

\* Mutant: the slice of panel i starts where it should end.
start_idx_next(i, wpp) == (i + 1) * wpp

start_idx(i, wpp) == i * wpp

\* Mutant: the last panel is cut like the others, the remainder is dropped.
end_idx_cut(i, wpp, n, len) == start_idx(i, wpp) + wpp

end_idx(i, wpp, n, len) ==
    IF i < n - 1 THEN start_idx(i, wpp) + wpp ELSE len

\* <<start_idx, end_idx>> of iteration i (0-based) of the loop
PanelSpan(ws, n, i) ==
    LET wpp == words_per_panel(ws, n)
    IN  <<start_idx(i, wpp), end_idx(i, wpp, n, Len(ws))>>

\* panel_words = words[start_idx:end_idx]
panel_words(ws, n, i) == Slice(ws, PanelSpan(ws, n, i)[1], PanelSpan(ws, n, i)[2])

split_story_into_panels(story_text, n) ==
    LET ws == Split(story_text)
    IN  [k \in 1..n |-> Join(panel_words(ws, n, k - 1))]

ScenePrefix(k) == <<"S", "c", "e", "n", "e", " ">> \o IntToStr(k)

\* Mutant: the three dots are appended whatever the length of the text.
panel_desc_always_dots(panel_text, i) ==
    ScenePrefix(i + 1) \o <<":", " ">> \o Slice(panel_text, 0, FallbackEcho)
        \o <<".", ".", ".">>

\* f"Scene {i+1}: {panel_text[:30]}{'...' if len(panel_text) > 30 else ''}"
panel_desc(panel_text, i) ==
    ScenePrefix(i + 1) \o <<":", " ">> \o Slice(panel_text, 0, FallbackEcho)
        \o (IF Len(panel_text) > FallbackEcho THEN <<".", ".", ".">> ELSE <<>>)

fallback_panel_generation(story_text, n) ==
    LET ws == Split(story_text)
    IN  [k \in 1..n |-> panel_desc(Join(panel_words(ws, n, k - 1)), k - 1)]

(***************************************************************************)
(* LLMHandler: the text-generation collaborator and the panel parser       *)
(***************************************************************************)
\* Python values a JSON field can hold, as far as the handler tells them apart
PyNone == [t |-> "none", s |-> <<>>, k |-> 0]
PyStr(x) == [t |-> "str", s |-> x, k |-> 0]
PyInt(x) == [t |-> "int", s |-> <<>>, k |-> x]

\* bool(v)
Truthy(v) ==
    CASE v.t = "none" -> FALSE
      [] v.t = "str" -> v.s # <<>>
      [] OTHER -> v.k # 0

\* result of a call: a value, or the exception that left it
Returned(v) == [exc |-> "none", val |-> v]
Raised(e) == [exc |-> e, val |-> <<>>]

NoReply == [kind |-> "none", code |-> 0, has |-> FALSE, value |-> PyNone]
HttpFailure(k) == [kind |-> k, code |-> 0, has |-> FALSE, value |-> PyNone]
HttpStatus(c) == [kind |-> "status", code |-> c, has |-> FALSE, value |-> PyNone]
HttpJson(h, v) == [kind |-> "status", code |-> 200, has |-> h, value |-> v]

is_service_available(p) == p = "200"

\* what _call_llm_api returns: every exception is caught inside it
call_llm_api(r) ==
    CASE r.kind = "timeout" -> PyNone
      [] r.kind = "conn_error" -> PyNone
      [] r.kind = "bad_json" -> PyNone
      [] r.kind = "status" /\ r.code # 200 -> PyNone
      [] OTHER -> IF r.has THEN r.value ELSE PyStr(<<>>)

PanelToken == <<"P", "a", "n", "e", "l">>

\* the loop over the lines: descriptions in encounter order
RECURSIVE ParseLines(_, _)
ParseLines(lines, acc) ==
    IF lines = <<>> THEN acc
    ELSE LET line == Strip(Head(lines))
             description == Strip(AfterFirst(line, ":"))
         IN  IF StartsWith(line, PanelToken) /\ Contains(line, ":") /\ description # <<>>
             THEN ParseLines(Tail(lines), Append(acc, description))
             ELSE ParseLines(Tail(lines), acc)

\* Mutant: the label of a missing slot counts from 0.
PadLabelZeroBased(ps) == ScenePrefix(Len(ps))

\* f"Scene {len(panels) + 1}"
PadLabel(ps) == ScenePrefix(Len(ps) + 1)

\* Mutant: the parsed descriptions are not padded up to num_panels.
PadPanelsOmitted(ps, n) == ps

\* while len(panels) < num_panels: panels.append(...)
RECURSIVE PadPanels(_, _)
PadPanels(ps, n) ==
    IF Len(ps) < n THEN PadPanels(Append(ps, PadLabel(ps)), n) ELSE ps

parse_panel_response(response, n) ==
    LET lines == SplitOn(Strip(response), "\n")
        parsed == ParseLines(lines, <<>>)
    IN  Slice(PadPanels(parsed, n), 0, n)

\* _fallback_panel_generation as a call: the quotient divides by num_panels
fallback_call(story_text, n) ==
    IF n = 0 THEN Raised("ZeroDivisionError")
    ELSE Returned(fallback_panel_generation(story_text, n))

\* _parse_panel_response as a call: response.strip() needs a string
parse_call(v, n) ==
    IF v.t = "str" THEN Returned(parse_panel_response(v.s, n))
    ELSE Raised("AttributeError")

\* Mutant: the parse is not guarded, its exception leaves the call.
generate_unguarded_parse(story_text, n, p, r) ==
    IF ~is_service_available(p)
    THEN [path |-> "unavailable", res |-> fallback_call(story_text, n)]
    ELSE LET response == call_llm_api(r)
         IN  IF Truthy(response)
             THEN [path |-> "parsed", res |-> parse_call(response, n)]
             ELSE [path |-> "empty", res |-> fallback_call(story_text, n)]

generate_panel_descriptions(story_text, n, p, r) ==
    IF ~is_service_available(p)
    THEN [path |-> "unavailable", res |-> fallback_call(story_text, n)]
    ELSE LET response == call_llm_api(r)
         IN  IF Truthy(response)
             THEN IF parse_call(response, n).exc = "none"
                  THEN [path |-> "parsed", res |-> parse_call(response, n)]
                  ELSE [path |-> "error", res |-> fallback_call(story_text, n)]
             ELSE [path |-> "empty", res |-> fallback_call(story_text, n)]

(***************************************************************************)
(* ImageGenerator and LocalImageGenerator: one image per prompt            *)
(* A text is a sequence of pieces; formatting concatenates pieces.         *)
(***************************************************************************)
PanelSize == 512

StyleTags == {"comic", "realistic", "cartoon", "anime", "watercolor", "sketch"}

\* style_enhancements of ImageGenerator._enhance_prompt
RemoteStyleTable ==
    [t \in StyleTags |->
        CASE t = "comic" -> "comic book style, vibrant colors, bold outlines, clear composition"
          [] t = "realistic" -> "photorealistic, detailed, natural lighting, high quality"
          [] t = "cartoon" -> "cartoon style, simple shapes, bright colors, clean lines"
          [] t = "anime" -> "anime style, expressive characters, detailed backgrounds, manga influence"
          [] t = "watercolor" -> "watercolor painting style, soft colors, artistic"
          [] OTHER -> "pencil sketch style, black and white, artistic"]

\* style_enhancements of LocalImageGenerator._enhance_prompt
LocalStyleTable ==
    [t \in StyleTags |->
        CASE t = "comic" -> "comic book style, vibrant colors, bold outlines, clear composition, high quality"
          [] t = "realistic" -> "photorealistic, detailed, natural lighting, high quality, sharp focus"
          [] t = "cartoon" -> "cartoon style, simple shapes, bright colors, clean lines, cute"
          [] t = "anime" -> "anime style, expressive characters, detailed backgrounds, manga influence, high quality"
          [] t = "watercolor" -> "watercolor painting style, soft colors, artistic, beautiful"
          [] OTHER -> "pencil sketch style, black and white, artistic, detailed"]

\* style_enhancements.get(style, style_enhancements["comic"])
StyleLookup(table, style) == IF style \in DOMAIN table THEN table[style] ELSE table["comic"]

RemoteNegativePrompt == <<"blurry, low quality, distorted, ugly, bad anatomy">>

\* LocalImageGenerator._enhance_prompt: returns the enhanced prompt
local_enhance_prompt(prompt, style) ==
    prompt \o <<", ", StyleLookup(LocalStyleTable, style)>>

\* ImageGenerator._enhance_prompt: returns (enhanced_prompt, negative_prompt)
remote_enhance_prompt(prompt, style) ==
    <<prompt \o <<", ", StyleLookup(RemoteStyleTable, style)>>, RemoteNegativePrompt>>

\* f"{t}" of a 2-tuple of strings: "('a', 'b')"
TupleRepr(t) == <<"('">> \o t[1] \o <<"', '">> \o t[2] \o <<"')">>

Placeholder(width, height) ==
    [kind |-> "placeholder", size |-> <<width, height>>, contrast |-> FALSE]

Generated(size) == [kind |-> "generated", size |-> size, contrast |-> FALSE]

\* _post_process_image of both classes
post_process_image(image, style) ==
    LET target_size == <<PanelSize, PanelSize>>
        resized == IF image.size # target_size
                   THEN [image EXCEPT !.size = target_size] ELSE image
    IN  IF style = "comic" THEN [resized EXCEPT !.contrast = TRUE] ELSE resized

Outcome(k, size) == [kind |-> k, size |-> size]

\* ImageGenerator._call_image_api: prompt is what generate_image passes, the
\* tuple returned by _enhance_prompt. Returns the payload prompt and the bytes.
call_image_api(gen, prompt, o) ==
    IF gen.api_url = ""
    THEN [sent |-> <<>>, data |-> "None"]
    ELSE LET again == remote_enhance_prompt(TupleRepr(prompt), "comic")
         IN  [sent |-> <<again[1]>>,
              data |-> CASE o.kind \in {"timeout", "conn_error", "status_500", "bad_json",
                                        "no_field", "bad_base64"} -> "None"
                         [] o.kind = "empty_bytes" -> "empty"
                         [] o.kind = "bad_image" -> "garbage"
                         [] OTHER -> "png"]

\* Mutant: Image.open is outside the try, a decode error leaves the call.
remote_generate_image_unguarded(gen, req, o) ==
    LET api == call_image_api(gen, remote_enhance_prompt(req.prompt, req.style), o)
    IN  IF api.data = "garbage"
        THEN [sent |-> api.sent, res |-> Raised("UnidentifiedImageError")]
        ELSE IF api.data = "png"
        THEN [sent |-> api.sent, res |-> Returned(post_process_image(Generated(o.size), req.style))]
        ELSE [sent |-> api.sent, res |-> Returned(Placeholder(req.width, req.height))]

\* ImageGenerator.generate_image
remote_generate_image(gen, req, o) ==
    LET enhanced_prompt == remote_enhance_prompt(req.prompt, req.style)
        api == call_image_api(gen, enhanced_prompt, o)
        opened == IF api.data = "garbage" THEN Raised("UnidentifiedImageError")
                  ELSE Returned(Generated(o.size))
    IN  IF api.data \in {"None", "empty"}
        THEN [sent |-> api.sent, res |-> Returned(Placeholder(req.width, req.height))]
        ELSE IF opened.exc # "none"
        THEN [sent |-> api.sent, res |-> Returned(Placeholder(req.width, req.height))]
        ELSE [sent |-> api.sent, res |-> Returned(post_process_image(opened.val, req.style))]

\* ImageGenerator.__init__: api_url or os.getenv("STABLE_DIFFUSION_API_URL")
ImageGenerator_init(url, env_url) ==
    Returned([class |-> "ImageGenerator",
              api_url |-> IF url # "" THEN url ELSE env_url,
              diffusion_available |-> FALSE, pipeline |-> "None"])

\* LocalImageGenerator.__init__: the device line reads torch, a name the
\* module binds only when both imports succeeded; _load_model catches its
\* own exceptions and leaves pipeline = None.
LocalImageGenerator_init(imports_ok, load_ok) ==
    IF ~imports_ok THEN Raised("NameError")
    ELSE Returned([class |-> "LocalImageGenerator", api_url |-> "",
                   diffusion_available |-> TRUE,
                   pipeline |-> IF load_ok THEN "loaded" ELSE "None"])

\* LocalImageGenerator.is_available, for a constructed generator
is_available(gen) == gen.diffusion_available /\ gen.pipeline # "None"

\* LocalImageGenerator.generate_image
local_generate_image(gen, req, o) ==
    IF ~is_available(gen)
    THEN [sent |-> <<>>, res |-> Returned(Placeholder(req.width, req.height))]
    ELSE LET enhanced_prompt == local_enhance_prompt(req.prompt, req.style)
         IN  IF o.kind = "image"
             THEN [sent |-> <<enhanced_prompt>>,
                   res |-> Returned(post_process_image(Generated(o.size), req.style))]
             ELSE [sent |-> <<enhanced_prompt>>,
                   res |-> Returned(Placeholder(req.width, req.height))]

generate_image(gen, req, o) ==
    IF gen.class = "ImageGenerator" THEN remote_generate_image(gen, req, o)
    ELSE local_generate_image(gen, req, o)

\* f"Comic panel {i+1}: {description}"
panel_prompt(description, i) ==
    <<"Comic panel ">> \o IntToStr(i + 1) \o <<": ">> \o description

\* time.sleep(1) of ImageGenerator, time.sleep(0.5) of LocalImageGenerator,
\* in tenths of a second
sleep_tenths(gen) == IF gen.class = "ImageGenerator" THEN 10 ELSE 5

\* the call of generate_image for panel i, counted from 0
CallEvent(i) == [op |-> "generate_image", panel |-> i, tenths |-> 0]

SleepEvent(gen, i) == [op |-> "sleep", panel |-> i, tenths |-> sleep_tenths(gen)]

\* Mutant: the delay follows every panel, the last one too.
panel_events_always_sleep(gen, i, n) == <<CallEvent(i), SleepEvent(gen, i)>>

\* one iteration of the loop of generate_comic_panels over n descriptions:
\* the call, then the delay "if i < len(panel_descriptions) - 1"
panel_events(gen, i, n) ==
    IF i < n - 1 THEN <<CallEvent(i), SleepEvent(gen, i)>> ELSE <<CallEvent(i)>>

\* generate_comic_panels of both classes: descriptions in index order, each
\* through generate_image with the default 512 x 512; outs[i] is what the
\* collaborator does at call i. An exception of generate_image ends the loop.
RECURSIVE comic_panels_from(_, _, _, _, _, _)
comic_panels_from(gen, descriptions, style, outs, i, acc) ==
    IF i > Len(descriptions) THEN acc
    ELSE LET req == [prompt |-> panel_prompt(descriptions[i], i - 1), style |-> style,
                     width |-> PanelSize, height |-> PanelSize]
             one == generate_image(gen, req, outs[i])
         IN  IF one.res.exc # "none"
             THEN [sent |-> acc.sent \o one.sent, images |-> acc.images, exc |-> one.res.exc,
                   log |-> Append(acc.log, CallEvent(i - 1))]
             ELSE comic_panels_from(gen, descriptions, style, outs, i + 1,
                      [sent |-> acc.sent \o one.sent,
                       images |-> Append(acc.images, one.res.val),
                       exc |-> "none",
                       log |-> acc.log \o panel_events(gen, i - 1, Len(descriptions))])

generate_comic_panels(gen, descriptions, style, outs) ==
    comic_panels_from(gen, descriptions, style, outs, 1,
                      [sent |-> <<>>, images |-> <<>>, exc |-> "none", log |-> <<>>])

(***************************************************************************)
(* combine_panels_into_comic, the same code in ImageGenerator and          *)
(* LocalImageGenerator.  A combined image records its canvas size and,     *)
(* for every panel in order, the image pasted and the corner it was        *)
(* pasted at.                                                              *)
(***************************************************************************)
spacing == 10

\* no image object
NoImage == [kind |-> "none", size |-> <<0, 0>>, contrast |-> FALSE]

\* Image.new('RGB', size, 'white') after the pastes of the loop
Combined(size, pastes) ==
    [kind |-> "combined", size |-> size, contrast |-> FALSE, pastes |-> pastes]

\* Mutant: panels pasted edge to edge.
paste_horizontal_edge(i, panel_width) == <<i * panel_width, 0>>

\* layout == "horizontal": corner of panel i, counted from 0
paste_horizontal(i, panel_width) == <<i * (panel_width + spacing), 0>>

\* Mutant: the first panel is offset by one slot.
paste_vertical_shifted(i, panel_height) == <<0, (i + 1) * (panel_height + spacing)>>

\* layout == "vertical": corner of panel i, counted from 0
paste_vertical(i, panel_height) == <<0, i * (panel_height + spacing)>>

\* Mutant: rows counted by floor, which drops the row of an odd last panel.
grid_rows_floor(n) == n \div 2

\* grid: rows = (len(images) + 1) // 2
grid_rows(n) == (n + 1) \div 2

\* Mutant: row and column of the cell exchanged.
paste_grid_swapped(i, cols, panel_width, panel_height) ==
    LET row == i % cols
        col == i \div cols
    IN  <<col * (panel_width + spacing), row * (panel_height + spacing)>>

\* grid: corner of panel i, counted from 0
paste_grid(i, cols, panel_width, panel_height) ==
    LET row == i \div cols
        col == i % cols
    IN  <<col * (panel_width + spacing), row * (panel_height + spacing)>>

\* Mutant: "row" and "column" are taken for "horizontal" and "vertical".
combine_layout_aliases(imgs, layout) ==
    LET n == Len(imgs)
        panel_width == imgs[1].size[1]
        panel_height == imgs[1].size[2]
    IN  IF layout \in {"horizontal", "row"}
        THEN Combined(<<n * panel_width + (n - 1) * spacing, panel_height>>,
                      [k \in 1..n |->
                          [image |-> imgs[k], at |-> paste_horizontal(k - 1, panel_width)]])
        ELSE IF layout \in {"vertical", "column"}
        THEN Combined(<<panel_width, n * panel_height + (n - 1) * spacing>>,
                      [k \in 1..n |->
                          [image |-> imgs[k], at |-> paste_vertical(k - 1, panel_height)]])
        ELSE LET cols == 2
                 rows == grid_rows(n)
             IN  Combined(<<cols * panel_width + (cols - 1) * spacing,
                            rows * panel_height + (rows - 1) * spacing>>,
                          [k \in 1..n |->
                              [image |-> imgs[k],
                               at |-> paste_grid(k - 1, cols, panel_width, panel_height)]])

\* the branches of combine_panels_into_comic below the emptiness test
combine_layout(imgs, layout) ==
    LET n == Len(imgs)
        panel_width == imgs[1].size[1]
        panel_height == imgs[1].size[2]
    IN  IF layout = "horizontal"
        THEN Combined(<<n * panel_width + (n - 1) * spacing, panel_height>>,
                      [k \in 1..n |->
                          [image |-> imgs[k], at |-> paste_horizontal(k - 1, panel_width)]])
        ELSE IF layout = "vertical"
        THEN Combined(<<panel_width, n * panel_height + (n - 1) * spacing>>,
                      [k \in 1..n |->
                          [image |-> imgs[k], at |-> paste_vertical(k - 1, panel_height)]])
        ELSE LET cols == 2
                 rows == grid_rows(n)
             IN  Combined(<<cols * panel_width + (cols - 1) * spacing,
                            rows * panel_height + (rows - 1) * spacing>>,
                          [k \in 1..n |->
                              [image |-> imgs[k],
                               at |-> paste_grid(k - 1, cols, panel_width, panel_height)]])

\* Mutant: no emptiness test; images[0] of an empty list raises IndexError.
combine_without_empty_test(imgs, layout) ==
    IF imgs = <<>> THEN Raised("IndexError") ELSE Returned(combine_layout(imgs, layout))

combine_panels_into_comic(imgs, layout) ==
    IF imgs = <<>>
    THEN Returned(Placeholder(PanelSize, PanelSize))
    ELSE Returned(combine_layout(imgs, layout))

\* no generator object
NoGenerator ==
    [class |-> "none", api_url |-> "", diffusion_available |-> FALSE, pipeline |-> "None"]

\* generate_image's defaults: style "comic", 512 x 512
DefaultRequest ==
    [prompt |-> <<>>, style |-> "comic", width |-> PanelSize, height |-> PanelSize]

\* the image variables when no call is modelled
ImgIdle ==
    /\ generator = NoGenerator
    /\ request = DefaultRequest
    /\ collab = <<>>
    /\ sent = <<>>
    /\ images = <<>>
    /\ imgRaised = "none"
    /\ log = <<>>
    /\ imgPc = "unused"

\* validate_story_input has not been called
NotValidated == <<FALSE, <<>>>>

\* get_session_state: the initial comic_data; generation_time 0 stands for
\* the absent "generation_time" key
DefaultSession ==
    [story |-> <<>>, panels |-> <<>>, images |-> <<>>, generated |-> FALSE,
     generation_time |-> 0]

\* Mutant: every call starts from a new comic_data.
get_session_state_new(comic_data) == DefaultSession

\* get_session_state once comic_data is in st.session_state: the dictionary
\* itself is returned
get_session_state(comic_data) == comic_data

\* time.time() - start_time of a run, in whole seconds
GenerationTimes == {1, 2}

\* the application variables when no run is modelled
AppIdle ==
    /\ diffusion_available = TRUE
    /\ session = DefaultSession
    /\ api_url = ""
    /\ local_generator = NoGenerator
    /\ provider = "none"
    /\ error = "none"
    /\ appPc = "unused"
    /\ layout_style = "horizontal"
    /\ combined_image = NoImage
    /\ mainPc = "unused"
    /\ validation = NotValidated
    /\ error_str = <<>>
    /\ error_msg = <<>>
    /\ loads = "never"

\* the text-generation variables when no call is modelled
LlmIdle ==
    /\ probe = "unused"
    /\ reply = NoReply
    /\ path = "unused"
    /\ raised = "none"
    /\ llmPc = "unused"

(***************************************************************************)
(* Specification of the validation: one call of validate_story_input with  *)
(* a story drawn from a bounded set: a core of "a"s between a run of       *)
(* leading and a run of trailing spaces                                    *)
(***************************************************************************)
MaxPad == 2             \* short runs of spaces have 0..MaxPad characters

\* the character c, k times
Repeat(c, k) == [i \in 1..k |-> c]

\* lengths of the core, around both limits
CoreLengths ==
    {0, 1, MinStoryChars - 1, MinStoryChars, MinStoryChars + 1,
     MaxStoryChars - MinStoryChars, MaxStoryChars - 1, MaxStoryChars, MaxStoryChars + 1}

\* lengths of the trailing run: short, enough to pass the lower limit, and
\* enough to pass the upper limit
TrailLengths == (0..MaxPad) \cup {MinStoryChars, MaxStoryChars}

ValidatedStories ==
    {Repeat(" ", l) \o Repeat("a", c) \o Repeat(" ", t) :
        l \in 0..MaxPad, c \in CoreLengths, t \in TrailLengths}

ValidateInit ==
    /\ story \in ValidatedStories
    /\ num_panels = 0
    /\ words = <<>>
    /\ spans = <<>>
    /\ panels = <<>>
    /\ splitPc = "unused"
    /\ LlmIdle
    /\ ImgIdle
    /\ diffusion_available = TRUE
    /\ session = DefaultSession
    /\ api_url = ""
    /\ local_generator = NoGenerator
    /\ provider = "none"
    /\ error = "none"
    /\ appPc = "input"
    /\ layout_style = "horizontal"
    /\ combined_image = NoImage
    /\ mainPc = "unused"
    /\ validation = NotValidated
    /\ error_str = <<>>
    /\ error_msg = <<>>
    /\ loads = "never"

ValidateStory ==
    /\ appPc = "input"
    /\ validation' = validate_story_input(story)
    /\ appPc' = "validated"
    /\ UNCHANGED <<splitVars, llmVars, imgVars, diffusion_available, session, api_url,
                   local_generator, provider, error, pageVars, error_str, error_msg, loads>>

ValidateNext == ValidateStory

SpecValidate == ValidateInit /\ [][ValidateNext]_vars

(***************************************************************************)
(* Specification of the splitter: inputs drawn from bounded sets           *)
(***************************************************************************)
RECURSIVE SeqsUpTo(_, _)
SeqsUpTo(S, k) ==
    IF k = 0 THEN {<<>>}
    ELSE LET shorter == SeqsUpTo(S, k - 1)
         IN  shorter \cup {Append(s, c) : s \in {t \in shorter : Len(t) = k - 1}, c \in S}

Stories == SeqsUpTo(StoryChars, MaxStoryLen)

\* stories with a word, or a group of words, around FallbackEcho characters
LongStories ==
    {Repeat("a", k) : k \in (FallbackEcho - 1)..(FallbackEcho + 2)}
        \cup {Repeat("a", FallbackEcho + 1) \o <<" ">> \o Repeat("a", k) : k \in 1..3}
        \cup {Repeat("a", FallbackEcho - 2) \o <<" ">> \o Repeat("a", k) : k \in 1..3}

PanelCounts == 1..MaxPanels

SplitInit ==
    /\ story \in Stories \cup LongStories
    /\ num_panels \in PanelCounts
    /\ words = <<>>
    /\ spans = <<>>
    /\ panels = <<>>
    /\ splitPc = "input"
    /\ LlmIdle
    /\ ImgIdle
    /\ AppIdle

SplitStory ==
    /\ splitPc = "input"
    /\ words' = Split(story)
    /\ spans' = [k \in 1..num_panels |-> PanelSpan(Split(story), num_panels, k - 1)]
    /\ panels' = split_story_into_panels(story, num_panels)
    /\ splitPc' = "utils"
    /\ UNCHANGED <<story, num_panels>>
    /\ UNCHANGED <<llmVars, imgVars, appVars, pageVars>>

FallbackSplit ==
    /\ splitPc = "input"
    /\ words' = Split(story)
    /\ spans' = [k \in 1..num_panels |-> PanelSpan(Split(story), num_panels, k - 1)]
    /\ panels' = fallback_panel_generation(story, num_panels)
    /\ splitPc' = "fallback"
    /\ UNCHANGED <<story, num_panels>>
    /\ UNCHANGED <<llmVars, imgVars, appVars, pageVars>>

SplitNext == SplitStory \/ FallbackSplit

SpecSplit == SplitInit /\ [][SplitNext]_vars

(***************************************************************************)
(* Specification of the error formatting: one call of format_error_message *)
(* with the exception drawn from a bounded set                             *)
(***************************************************************************)
MaxErrorPieces == 3     \* str(error) has 0..MaxErrorPieces pieces of text

\* type(error).__name__: the four of the table and three others
ErrorTypes == DedicatedErrors \cup {"NameError", "KeyError", "OSError"}

ErrorTexts == SeqsUpTo({"Unknown error", " failed"}, MaxErrorPieces)

FormatInit ==
    /\ story = <<>>
    /\ num_panels = 0
    /\ words = <<>>
    /\ spans = <<>>
    /\ panels = <<>>
    /\ splitPc = "unused"
    /\ LlmIdle
    /\ ImgIdle
    /\ diffusion_available = TRUE
    /\ session = DefaultSession
    /\ api_url = ""
    /\ local_generator = NoGenerator
    /\ provider = "none"
    /\ error \in ErrorTypes
    /\ appPc = "input"
    /\ layout_style = "horizontal"
    /\ combined_image = NoImage
    /\ mainPc = "unused"
    /\ validation = NotValidated
    /\ error_str \in ErrorTexts
    /\ error_msg = <<>>
    /\ loads = "never"

FormatError ==
    /\ appPc = "input"
    /\ error_msg' = format_error_message(error, error_str)
    /\ appPc' = "formatted"
    /\ UNCHANGED <<splitVars, llmVars, imgVars, diffusion_available, session, api_url,
                   local_generator, provider, error, pageVars, validation, error_str, loads>>

FormatNext == FormatError

SpecFormat == FormatInit /\ [][FormatNext]_vars

(***************************************************************************)
(* Specification of generate_panel_descriptions: the story, the panel      *)
(* count and the collaborator's answers are drawn from bounded sets        *)
(***************************************************************************)
MaxReplyLines == 3      \* lines of a generated text

\* "aaaaaaaaaa": one word; "aa aa aa aa": four words
LlmStories ==
    { <<"a", "a", "a", "a", "a", "a", "a", "a", "a", "a">>,
      <<"a", "a", " ", "a", "a", " ", "a", "a", " ", "a", "a">> }

\* lines a text-generation service may answer with
ReplyLines ==
    { <<"P", "a", "n", "e", "l", " ", "1", ":", " ", "x">>,        \* "Panel 1: x"
      <<" ", "P", "a", "n", "e", "l", ":", "y", ":", "z", " ">>,   \* " Panel:y:z "
      <<"P", "a", "n", "e", "l", " ", "3", ":", " ">>,             \* "Panel 3: "
      <<"P", "a", "n", "e", "l", " ", "4">>,                       \* "Panel 4"
      <<"p", "a", "n", "e", "l", " ", "5", ":", " ", "x">>,        \* "panel 5: x"
      <<>> }                                                       \* ""

RECURSIVE JoinLines(_)
\* "\n".join(ls)
JoinLines(ls) ==
    IF ls = <<>> THEN <<>>
    ELSE IF Len(ls) = 1 THEN ls[1]
    ELSE ls[1] \o <<"\n">> \o JoinLines(Tail(ls))

ReplyTexts == {JoinLines(ls) : ls \in SeqsUpTo(ReplyLines, MaxReplyLines)}

Probes == {"200", "503", "conn_error"}

Replies ==
    {HttpFailure("timeout"), HttpFailure("conn_error"), HttpFailure("bad_json"),
     HttpStatus(500), HttpJson(FALSE, PyNone), HttpJson(TRUE, PyNone),
     HttpJson(TRUE, PyInt(7))}
        \cup {HttpJson(TRUE, PyStr(t)) : t \in ReplyTexts}

LlmInit ==
    /\ story \in LlmStories
    /\ num_panels \in 0..MaxPanels
    /\ words = <<>>
    /\ spans = <<>>
    /\ panels = <<>>
    /\ splitPc = "unused"
    /\ probe = "unused"
    /\ reply = NoReply
    /\ path = "unused"
    /\ raised = "none"
    /\ llmPc = "input"
    /\ ImgIdle
    /\ AppIdle

GeneratePanelDescriptions ==
    /\ llmPc = "input"
    /\ \E p \in Probes, r \in Replies :
         LET out == generate_panel_descriptions(story, num_panels, p, r)
         IN  /\ probe' = p
             /\ reply' = IF is_service_available(p) THEN r ELSE NoReply
             /\ path' = out.path
             /\ raised' = out.res.exc
             /\ panels' = out.res.val
    /\ llmPc' = "done"
    /\ UNCHANGED <<story, num_panels, words, spans, splitPc>>
    /\ UNCHANGED <<imgVars, appVars, pageVars>>

LlmNext == GeneratePanelDescriptions

SpecLLM == LlmInit /\ [][LlmNext]_vars

(***************************************************************************)
(* Specification of the image generators: the generator is constructed,    *)
(* then one call is made with arguments and collaborator outcomes drawn    *)
(* from bounded sets                                                       *)
(***************************************************************************)
MaxImgPanels == 2       \* descriptions in one generate_comic_panels call

Constructions ==
    {ImageGenerator_init(u, e) : u \in {"", "http://api"}, e \in {"", "http://env"}}
        \cup {LocalImageGenerator_init(d, l) : d \in BOOLEAN, l \in BOOLEAN}

\* a constructor that raised leaves no object to call
Generators == {c.val : c \in {x \in Constructions : x.exc = "none"}}

Descriptions == { <<"A cat">>, <<"Scene 1: aa">> }

RequestStyles == StyleTags \cup {"noir"}

RequestSizes == {256, PanelSize}

ReturnedSizes == { <<256, 256>>, <<PanelSize, PanelSize>>, <<768, PanelSize>> }

RemoteOutcomes ==
    {Outcome(k, <<0, 0>>) : k \in {"timeout", "conn_error", "status_500", "bad_json",
                                    "no_field", "bad_base64", "empty_bytes", "bad_image"}}
        \cup {Outcome("image", z) : z \in ReturnedSizes}

LocalOutcomes ==
    {Outcome(k, <<0, 0>>) : k \in {"pipeline_error", "no_images"}}
        \cup {Outcome("image", z) : z \in ReturnedSizes}

Outcomes(gen) == IF gen.class = "ImageGenerator" THEN RemoteOutcomes ELSE LocalOutcomes

\* outcomes tried at each call of a panel sequence
PanelOutcomes(gen) ==
    IF gen.class = "ImageGenerator"
    THEN {Outcome("timeout", <<0, 0>>), Outcome("bad_image", <<0, 0>>),
          Outcome("image", <<768, PanelSize>>)}
    ELSE {Outcome("pipeline_error", <<0, 0>>), Outcome("no_images", <<0, 0>>),
          Outcome("image", <<768, PanelSize>>)}

ImgInit ==
    /\ story = <<>>
    /\ num_panels = 0
    /\ words = <<>>
    /\ spans = <<>>
    /\ panels = <<>>
    /\ splitPc = "unused"
    /\ LlmIdle
    /\ generator \in Generators
    /\ request = DefaultRequest
    /\ collab = <<>>
    /\ sent = <<>>
    /\ images = <<>>
    /\ imgRaised = "none"
    /\ log = <<>>
    /\ imgPc = "input"
    /\ AppIdle

GenerateImage ==
    /\ imgPc = "input"
    /\ \E d \in Descriptions, st \in RequestStyles, w \in RequestSizes, h \in RequestSizes,
          o \in Outcomes(generator) :
         LET req == [prompt |-> d, style |-> st, width |-> w, height |-> h]
             out == generate_image(generator, req, o)
         IN  /\ request' = req
             /\ collab' = <<o>>
             /\ sent' = out.sent
             /\ images' = IF out.res.exc = "none" THEN <<out.res.val>> ELSE <<>>
             /\ imgRaised' = out.res.exc
    /\ imgPc' = "image"
    /\ UNCHANGED <<splitVars, llmVars, generator, log, appVars, pageVars>>

GenerateComicPanels ==
    /\ imgPc = "input"
    /\ \E ds \in SeqsUpTo(Descriptions, MaxImgPanels), st \in RequestStyles :
         \E outs \in [1..Len(ds) -> PanelOutcomes(generator)] :
            LET out == generate_comic_panels(generator, ds, st, outs)
            IN  /\ panels' = ds
                /\ request' = [prompt |-> <<>>, style |-> st, width |-> PanelSize,
                               height |-> PanelSize]
                /\ collab' = outs
                /\ sent' = out.sent
                /\ images' = out.images
                /\ imgRaised' = out.exc
                /\ log' = out.log
    /\ imgPc' = "panels"
    /\ UNCHANGED <<story, num_panels, words, spans, splitPc, llmVars, generator, appVars,
                   pageVars>>

ImgNext == GenerateImage \/ GenerateComicPanels

SpecImage == ImgInit /\ [][ImgNext]_vars

(***************************************************************************)
(* Specification of the compositor: one call of combine_panels_into_comic  *)
(* with the image list and the layout tag drawn from bounded sets          *)
(***************************************************************************)
MaxLayoutPanels == 5    \* image lists have 0..MaxLayoutPanels panels

LayoutSizes == { <<100, 100>>, <<256, 128>>, <<PanelSize, PanelSize>> }

\* the tags of the sidebar, and tags that are none of them: these take the
\* else branch
LayoutTags == {"horizontal", "vertical", "grid", "row", "column", "Horizontal", ""}

\* n panels of size z; the last one is a placeholder, or a generated image
\* of size last
PanelList(n, z, last) ==
    [k \in 1..n |-> IF k < n THEN Generated(z)
                    ELSE IF last = z THEN Placeholder(z[1], z[2]) ELSE Generated(last)]

\* lists of one common size, and lists whose last panel has another size
LayoutImages ==
    {PanelList(n, z, last) : n \in 0..MaxLayoutPanels, z \in LayoutSizes, last \in LayoutSizes}

LayoutInit ==
    /\ story = <<>>
    /\ num_panels = 0
    /\ words = <<>>
    /\ spans = <<>>
    /\ panels = <<>>
    /\ splitPc = "unused"
    /\ LlmIdle
    /\ generator = NoGenerator
    /\ request = DefaultRequest
    /\ collab = <<>>
    /\ sent = <<>>
    /\ images \in LayoutImages
    /\ imgRaised = "none"
    /\ log = <<>>
    /\ imgPc = "input"
    /\ diffusion_available = TRUE
    /\ session = DefaultSession
    /\ api_url = ""
    /\ local_generator = NoGenerator
    /\ provider = "none"
    /\ error = "none"
    /\ appPc = "unused"
    /\ layout_style \in LayoutTags
    /\ combined_image = NoImage
    /\ mainPc = "unused"
    /\ validation = NotValidated
    /\ error_str = <<>>
    /\ error_msg = <<>>
    /\ loads = "never"

CombinePanels ==
    /\ imgPc = "input"
    /\ LET out == combine_panels_into_comic(images, layout_style)
       IN  /\ imgRaised' = out.exc
           /\ combined_image' = IF out.exc = "none" THEN out.val ELSE NoImage
    /\ imgPc' = "combined"
    /\ UNCHANGED <<splitVars, llmVars, generator, request, collab, sent, images, log,
                   appVars, layout_style, mainPc>>

LayoutNext == CombinePanels

SpecLayout == LayoutInit /\ [][LayoutNext]_vars

(***************************************************************************)
(* Specification of the application: submissions, each a run of            *)
(* generate_comic, and clears of the session                               *)
(***************************************************************************)
MaxRunPanels == 2       \* panel counts submitted are 1..MaxRunPanels

\* "a a": rejected; the others are accepted
AppStories == LlmStories \cup { <<"a", " ", "a">> }

\* the first option of the Art Style selectbox
AppStyles == {"comic"}

AppUrls == {"", "http://api"}

\* the options of the Layout Style selectbox
AppLayouts == {"horizontal", "vertical", "grid"}

AppProbes == {"200", "503"}

AppReplies ==
    {HttpFailure("timeout"),
     HttpJson(TRUE, PyStr(<<"P", "a", "n", "e", "l", " ", "1", ":", " ", "x">>))}

AppOutcomes(gen) ==
    IF gen.class = "ImageGenerator"
    THEN {Outcome("timeout", <<0, 0>>), Outcome("image", <<768, PanelSize>>)}
    ELSE {Outcome("pipeline_error", <<0, 0>>), Outcome("image", <<PanelSize, PanelSize>>)}

AppInit ==
    /\ story = <<>>
    /\ num_panels = 0
    /\ words = <<>>
    /\ spans = <<>>
    /\ panels = <<>>
    /\ splitPc = "unused"
    /\ LlmIdle
    /\ generator = NoGenerator
    /\ request = DefaultRequest
    /\ collab = <<>>
    /\ sent = <<>>
    /\ images = <<>>
    /\ imgRaised = "none"
    /\ log = <<>>
    /\ imgPc = "unused"
    /\ diffusion_available \in BOOLEAN
    /\ session = DefaultSession
    /\ api_url = ""
    /\ local_generator = NoGenerator
    /\ provider = "none"
    /\ error = "none"
    /\ appPc = "Idle"
    /\ layout_style = "horizontal"
    /\ combined_image = NoImage
    /\ mainPc = "displayed"
    /\ validation = NotValidated
    /\ error_str = <<>>
    /\ error_msg = <<>>
    /\ loads = "never"

\* Mutant: the script is taken to be between two runs at any position.
BetweenRunsAnywhere == appPc \in {"Idle", "Rejected", "Ready", "Failed", "Splitting",
                                  "Selecting", "Acquiring"}

BetweenRuns == appPc \in {"Idle", "Rejected", "Ready", "Failed"}

\* str(e) of the exceptions the steps of generate_comic raise
ExceptionText(exc) ==
    IF exc = "NameError" THEN <<"name 'torch' is not defined">>
    ELSE IF exc = "ZeroDivisionError" THEN <<"integer division or modulo by zero">>
    ELSE <<>>

\* generate_comic, "except Exception as e": exc is "none" when the step
\* raised nothing
HandleException(exc) ==
    /\ error' = exc
    /\ error_str' = ExceptionText(exc)
    /\ error_msg' = IF exc = "none" THEN <<>>
                    ELSE format_error_message(exc, ExceptionText(exc))

\* the pipelines loaded so far, told apart as far as "at most once" needs
CountLoad(n, loaded) ==
    IF ~loaded THEN n ELSE IF n = "never" THEN "once" ELSE "again"

\* main: the Generate button, then generate_comic up to the try block
Submit ==
    /\ BetweenRuns
    /\ mainPc = "displayed"
    /\ \E s \in AppStories, n \in 1..MaxRunPanels, st \in AppStyles, u \in AppUrls :
         /\ story' = s
         /\ num_panels' = n
         /\ request' = [DefaultRequest EXCEPT !.style = st]
         /\ api_url' = u
         /\ validation' = IF Strip(s) # <<>> THEN validate_story_input(s) ELSE NotValidated
         /\ appPc' = IF Strip(s) # <<>> /\ validate_story_input(s)[1]
                     THEN "Splitting" ELSE "Rejected"
    /\ panels' = <<>>
    /\ probe' = "unused"
    /\ reply' = NoReply
    /\ path' = "unused"
    /\ raised' = "none"
    /\ generator' = NoGenerator
    /\ local_generator' = NoGenerator
    /\ collab' = <<>>
    /\ sent' = <<>>
    /\ images' = <<>>
    /\ imgRaised' = "none"
    /\ log' = <<>>
    /\ provider' = "none"
    /\ HandleException("none")
    /\ session' = get_session_state(session)
    /\ combined_image' = NoImage
    /\ mainPc' = "running"
    /\ UNCHANGED <<words, spans, splitPc, llmPc, imgPc, diffusion_available,
                   layout_style, loads>>

\* generate_comic, step 1: LLMHandler(...).generate_panel_descriptions
SplitStep ==
    /\ appPc = "Splitting"
    /\ \E p \in AppProbes, r \in AppReplies :
         LET out == generate_panel_descriptions(story, num_panels, p, r)
         IN  /\ probe' = p
             /\ reply' = IF is_service_available(p) THEN r ELSE NoReply
             /\ path' = out.path
             /\ raised' = out.res.exc
             /\ panels' = out.res.val
             /\ HandleException(out.res.exc)
             /\ appPc' = IF out.res.exc = "none" THEN "Selecting" ELSE "Failed"
    /\ UNCHANGED <<story, num_panels, words, spans, splitPc, llmPc, imgVars,
                   diffusion_available, session, api_url, local_generator, provider,
                   pageVars, validation, loads>>

\* generate_comic, step 2: LocalImageGenerator(), then the if / elif / else
SelectProvider ==
    /\ appPc = "Selecting"
    /\ \E load_ok \in BOOLEAN :
         LET local == LocalImageGenerator_init(diffusion_available, load_ok)
         IN  IF local.exc # "none"
             THEN /\ HandleException(local.exc)
                  /\ appPc' = "Failed"
                  /\ UNCHANGED <<generator, local_generator, provider, loads>>
             ELSE /\ HandleException("none")
                  /\ appPc' = "Acquiring"
                  /\ local_generator' = local.val
                  /\ loads' = CountLoad(loads, local.val.pipeline = "loaded")
                  /\ IF is_available(local.val)
                     THEN provider' = "local" /\ generator' = local.val
                     ELSE IF api_url # ""
                     THEN /\ provider' = "remote"
                          /\ generator' = ImageGenerator_init(api_url, "").val
                     ELSE provider' = "placeholder" /\ generator' = local.val
    /\ UNCHANGED <<splitVars, llmVars, request, collab, sent, images, imgRaised, log, imgPc,
                   diffusion_available, session, api_url, pageVars, validation>>

\* one iteration of the loop that makes the images: generate_comic_panels
\* of the chosen generator, or the placeholder loop of generate_comic
AcquirePanel ==
    /\ appPc = "Acquiring"
    /\ Len(images) < Len(panels)
    /\ LET i == Len(images) + 1
       IN  IF provider = "placeholder"
           THEN /\ images' = Append(images, Placeholder(PanelSize, PanelSize))
                /\ UNCHANGED <<collab, sent, imgRaised, log, error, error_str, error_msg,
                               appPc>>
           ELSE \E o \in AppOutcomes(generator) :
                  LET req == [request EXCEPT !.prompt = panel_prompt(panels[i], i - 1)]
                      one == generate_image(generator, req, o)
                  IN  /\ collab' = Append(collab, o)
                      /\ sent' = sent \o one.sent
                      /\ imgRaised' = one.res.exc
                      /\ log' = log \o panel_events(generator, i - 1, Len(panels))
                      /\ HandleException(one.res.exc)
                      /\ IF one.res.exc = "none"
                         THEN images' = Append(images, one.res.val) /\ appPc' = appPc
                         ELSE images' = images /\ appPc' = "Failed"
    /\ UNCHANGED <<splitVars, llmVars, generator, request, imgPc,
                   diffusion_available, session, api_url, local_generator, provider,
                   pageVars, validation, loads>>

\* Mutant: the story of the session is only set when the session has none.
update_session_keep_story(session_data, story_text, panel_descriptions, imgs, elapsed) ==
    [story |-> IF session_data.story = <<>> THEN story_text ELSE session_data.story,
     panels |-> panel_descriptions, images |-> imgs, generated |-> TRUE,
     generation_time |-> elapsed]

\* generate_comic, "Step 3: Update session state": the five assignments
update_session(session_data, story_text, panel_descriptions, imgs, elapsed) ==
    [session_data EXCEPT !.story = story_text, !.panels = panel_descriptions,
                         !.images = imgs, !.generated = TRUE,
                         !.generation_time = elapsed]

\* generate_comic, step 3: the session is updated
SaveResults ==
    /\ appPc = "Acquiring"
    /\ Len(images) = Len(panels)
    /\ \E elapsed \in GenerationTimes :
         session' = update_session(session, story, panels, images, elapsed)
    /\ appPc' = "Ready"
    /\ UNCHANGED <<splitVars, llmVars, imgVars, diffusion_available, api_url,
                   local_generator, provider, error, pageVars, validation,
                   error_str, error_msg, loads>>

\* main: the Clear Session button; the rerun creates the default comic_data
ClearSession ==
    /\ BetweenRuns
    /\ mainPc = "displayed"
    /\ session # DefaultSession
    /\ session' = DefaultSession
    /\ appPc' = "Idle"
    /\ combined_image' = NoImage
    /\ UNCHANGED <<splitVars, llmVars, imgVars, diffusion_available, api_url,
                   local_generator, provider, error, layout_style, mainPc, validation,
                   error_str, error_msg, loads>>

\* main: another option of the Layout Style selectbox is chosen, which runs
\* the script again with no button pressed
ChangeLayout ==
    /\ BetweenRuns
    /\ mainPc = "displayed"
    /\ \E ls \in AppLayouts \ {layout_style} : layout_style' = ls
    /\ combined_image' = NoImage
    /\ mainPc' = "running"
    /\ UNCHANGED <<splitVars, llmVars, imgVars, appVars>>

\* main, after the button handlers: the comic of the session is displayed
DisplayComic ==
    /\ BetweenRuns
    /\ mainPc = "running"
    /\ IF session.generated /\ session.images # <<>>
       THEN \E load_ok \in BOOLEAN :
              LET local == LocalImageGenerator_init(diffusion_available, load_ok)
                  out == combine_panels_into_comic(session.images, layout_style)
              IN  IF local.exc # "none"
                  THEN /\ combined_image' = NoImage
                       /\ mainPc' = "crashed"
                       /\ loads' = loads
                  ELSE /\ combined_image' = IF out.exc = "none" THEN out.val ELSE NoImage
                       /\ mainPc' = IF out.exc = "none" THEN "displayed" ELSE "crashed"
                       /\ loads' = CountLoad(loads, local.val.pipeline = "loaded")
       ELSE combined_image' = NoImage /\ mainPc' = "displayed" /\ loads' = loads
    /\ UNCHANGED <<splitVars, llmVars, imgVars, diffusion_available, session, api_url,
                   local_generator, provider, error, appPc, validation, error_str,
                   error_msg, layout_style>>

Next ==
    \/ Submit \/ SplitStep \/ SelectProvider \/ AcquirePanel \/ SaveResults
    \/ ClearSession \/ ChangeLayout \/ DisplayComic

Spec == AppInit /\ [][Next]_vars

\* Runs of generate_comic in a session that holds no comic yet: submissions
\* are made until one of them ends Ready.
SubmitFirst == session = DefaultSession /\ Submit

RunNext ==
    \/ SubmitFirst \/ SplitStep \/ SelectProvider \/ AcquirePanel \/ SaveResults
    \/ DisplayComic

\* generate_panel_descriptions returns or raises: the step that leaves
\* "Splitting"; of RunNext only SplitStep is such a step, and it can be
\* taken for every probe and reply
SplitReturns == appPc = "Splitting" /\ appPc' \in {"Selecting", "Failed"}

\* the script run executes its code: a step of generate_comic that can be
\* taken is taken, every blocking call being bounded by its timeout
SpecRun ==
    /\ AppInit
    /\ [][RunNext]_vars
    /\ WF_appPc(SplitReturns)
    /\ WF_vars(SelectProvider)
    /\ WF_vars(AcquirePanel)
    /\ WF_vars(SaveResults)

(***************************************************************************)
(* Properties of the splitter                                              *)
(***************************************************************************)
RECURSIVE ConcatSpans(_, _)
\* the words of the spans, one span after the other
ConcatSpans(ws, sp) ==
    IF sp = <<>> THEN <<>>
    ELSE Slice(ws, Head(sp)[1], Head(sp)[2]) \o ConcatSpans(ws, Tail(sp))

SpansContiguous(sp, len) ==
    /\ sp # <<>>
    /\ sp[1][1] = 0
    /\ sp[Len(sp)][2] = len
    /\ \A k \in 1..Len(sp) : sp[k][1] <= sp[k][2]
    /\ \A k \in 1..(Len(sp) - 1) : sp[k][2] = sp[k + 1][1]

SpanLen(k) == Len(Slice(words, spans[k][1], spans[k][2]))

\* C1: for every story of 10..1000 characters and n in 1..6 both splitters
\* return exactly n panels, and the word spans [start_idx, end_idx) of panels
\* 1..n, in order, are contiguous and concatenate to story.split(): no word is
\* dropped, none is in two panels.
C1_SpansReconstructWords ==
    (splitPc # "input" /\ Len(story) \in MinStoryChars..MaxStoryChars) =>
        /\ Len(panels) = num_panels
        /\ Len(spans) = num_panels
        /\ ConcatSpans(words, spans) = Split(story)
        /\ SpansContiguous(spans, Len(Split(story)))

C1_Witness ==
    /\ splitPc = "fallback"
    /\ Len(story) \in MinStoryChars..MaxStoryChars
    /\ num_panels = 3
    /\ Len(words) = 4
    /\ spans = <<(<<0, 1>>), (<<1, 2>>), (<<2, 4>>)>>

\* C2: for every n >= 1 and non-zero word count, each of panels 1..n-1 holds
\* exactly floor(len(words)/n) words and panel n holds all the remaining words,
\* which are at least floor(len(words)/n).
C2_FloorShares ==
    (splitPc # "input" /\ Len(words) # 0) =>
        LET q == Len(words) \div num_panels
        IN  /\ \A k \in 1..(num_panels - 1) : SpanLen(k) = q
            /\ SpanLen(num_panels) = Len(words) - (num_panels - 1) * q
            /\ SpanLen(num_panels) >= q
            /\ spans[num_panels][2] = Len(words)

C2_Witness ==
    /\ splitPc = "utils"
    /\ num_panels = 4
    /\ Len(words) = 6
    /\ SpanLen(1) = 1
    /\ SpanLen(4) = 3

StoryAccepted == validate_story_input(story)[1]

\* C3 as stated: for every accepted story and n in 1..6,
\* split_story_into_panels returns n strings, every one of them non-empty.
C3_AllPanelsNonEmpty ==
    (splitPc = "utils" /\ StoryAccepted) =>
        /\ Len(panels) = num_panels
        /\ \A k \in 1..num_panels : panels[k] # <<>>

\* C3 amended: for every accepted story and n in 1..6,
\* split_story_into_panels returns n strings; the last one is non-empty, all of
\* them are non-empty when the story has at least n words, and with fewer
\* than n words the first n-1 are empty.
C3_NonEmptyWhenEnoughWords ==
    (splitPc = "utils" /\ StoryAccepted) =>
        /\ Len(panels) = num_panels
        /\ panels[num_panels] # <<>>
        /\ Len(words) >= num_panels => \A k \in 1..num_panels : panels[k] # <<>>
        /\ Len(words) < num_panels => \A k \in 1..(num_panels - 1) : panels[k] = <<>>

C3_Witness ==
    /\ splitPc = "utils"
    /\ StoryAccepted
    /\ num_panels = 3
    /\ Len(words) = 5
    /\ \A k \in 1..3 : panels[k] # <<>>

\* " ".join(panel_words) of panel k (1-based), from the words and the span
\* the splitter used
PanelText(k) == Join(Slice(words, spans[k][1], spans[k][2]))

\* C25 as stated: every fallback panel is "Scene i: ", then the first 30
\* characters of the panel's joined words, then "...", whatever the length of
\* the joined text.
C25_AlwaysEllipsis ==
    splitPc = "fallback" =>
        \A k \in 1..num_panels :
            panels[k] = ScenePrefix(k) \o <<":", " ">>
                            \o Slice(PanelText(k), 0, FallbackEcho) \o <<".", ".", ".">>

\* C25 amended: every fallback panel is "Scene i: " followed by the panel's
\* joined words when they have at most 30 characters, and by their first 30
\* characters and "..." when they have more.
C25_EllipsisWhenCut ==
    splitPc = "fallback" =>
        /\ Len(panels) = num_panels
        /\ \A k \in 1..num_panels :
             LET label == ScenePrefix(k) \o <<":", " ">>
                 text == PanelText(k)
             IN  IF Len(text) <= FallbackEcho
                 THEN panels[k] = label \o text
                 ELSE /\ Len(panels[k]) = Len(label) + FallbackEcho + 3
                      /\ SubSeq(panels[k], 1, Len(label) + FallbackEcho)
                            = label \o SubSeq(text, 1, FallbackEcho)
                      /\ SubSeq(panels[k], Len(label) + FallbackEcho + 1, Len(panels[k]))
                            = <<".", ".", ".">>

\* two fallback panels: the first has 31 characters of text and is cut, the
\* second has 3 and is echoed whole
C25_Witness ==
    /\ splitPc = "fallback"
    /\ num_panels = 2
    /\ Len(PanelText(1)) = FallbackEcho + 1
    /\ Len(panels[1]) = 9 + FallbackEcho + 3
    /\ panels[2] = <<"S", "c", "e", "n", "e", " ", "2", ":", " ", "a", "a", "a">>

(***************************************************************************)
(* Properties of generate_panel_descriptions                               *)
(***************************************************************************)
\* C4: for an accepted story and n >= 1, generate_panel_descriptions returns
\* exactly n strings and raises nothing, whatever the text-generation service
\* does: failed probe, connection error, timeout, non-200 status, unreadable,
\* missing, empty or non-text response, or too few or too many panel lines.
C4_AlwaysNPanels ==
    (llmPc = "done" /\ StoryAccepted /\ num_panels >= 1) =>
        /\ raised = "none"
        /\ Len(panels) = num_panels
        /\ path \in {"unavailable", "parsed", "empty", "error"}

C4_Witness ==
    /\ llmPc = "done"
    /\ StoryAccepted
    /\ num_panels = 2
    /\ probe = "200"
    /\ reply.value.t = "int"
    /\ path = "error"
    /\ raised = "none"
    /\ Len(panels) = 2

\* the descriptions the lines of the generated text parse to
ReplyDescriptions == ParseLines(SplitOn(Strip(reply.value.s), "\n"), <<>>)

\* C5: _parse_panel_response returns exactly n entries: the parsed
\* descriptions first, in order, cut after the n-th, and each missing slot i
\* (1-based) filled with "Scene i".
C5_PadAndTruncate ==
    (llmPc = "done" /\ path = "parsed") =>
        /\ Len(panels) = num_panels
        /\ \A i \in 1..num_panels :
              panels[i] = IF i <= Len(ReplyDescriptions)
                          THEN ReplyDescriptions[i]
                          ELSE <<"S", "c", "e", "n", "e", " ">> \o IntToStr(i)

C5_Witness ==
    /\ llmPc = "done"
    /\ path = "parsed"
    /\ num_panels = 3
    /\ Len(ReplyDescriptions) = 1
    /\ panels = << <<"y", ":", "z">>,
                   <<"S", "c", "e", "n", "e", " ", "2">>,
                   <<"S", "c", "e", "n", "e", " ", "3">> >>

(***************************************************************************)
(* Properties of the image generators                                      *)
(***************************************************************************)
\* C6: generate_image of both classes returns an image of exactly the
\* requested (width, height), on the success path and on the failure path.
C6_RequestedSize ==
    (imgPc = "image" /\ imgRaised = "none") =>
        /\ Len(images) = 1
        /\ images[1].size = <<request.width, request.height>>

\* the style table of the generator's class
StyleTableOf(gen) ==
    IF gen.class = "ImageGenerator" THEN RemoteStyleTable ELSE LocalStyleTable

CollaboratorFailed(o) == o.kind # "image"

C10_PromptIsDescriptionPlusStyle ==
    (imgPc = "image" /\ sent # <<>>) =>
        /\ Len(sent) = 1
        /\ sent[1] = request.prompt
                        \o <<", ", StyleLookup(StyleTableOf(generator), request.style)>>

(***************************************************************************)
(* Properties of the provider choice in generate_comic                     *)
(***************************************************************************)
\* the provider branch was taken, or the run ended while taking it
ProviderStagePassed == appPc \in {"Acquiring", "Ready", "Failed"} /\ panels # <<>>

\* dependencies missing, or the model failed to load
LocalUnavailable ==
    \/ ~diffusion_available
    \/ local_generator.class = "LocalImageGenerator" /\ ~is_available(local_generator)

RemoteUnavailable ==
    \/ api_url = ""
    \/ \A i \in 1..Len(collab) : CollaboratorFailed(collab[i])

\* C8: with the local pipeline unavailable (dependencies missing or model
\* not loaded) and the remote API not configured or failing, no exception
\* escapes the acquisition step and a finished run has one image of the
\* requested 512 x 512 for every panel description.
C8_ImagesWhenNothingAvailable ==
    (ProviderStagePassed /\ LocalUnavailable /\ RemoteUnavailable) =>
        /\ appPc # "Failed"
        /\ error = "none"
        /\ appPc = "Ready" =>
              /\ Len(images) = Len(panels)
              /\ \A i \in 1..Len(images) : images[i].size = <<PanelSize, PanelSize>>

ExpectedProvider ==
    IF ~LocalUnavailable THEN "local"
    ELSE IF api_url # "" THEN "remote"
    ELSE "placeholder"

\* C9: in every run the provider is the local pipeline if it is available,
\* otherwise the remote API if a URL is configured, otherwise direct
\* placeholders; that one provider makes all the images of the run.
C9_StrictProviderOrder ==
    ProviderStagePassed =>
        /\ provider = ExpectedProvider
        /\ provider = "placeholder" => collab = <<>> /\ sent = <<>>
        /\ provider = "local" =>
              generator.class = "LocalImageGenerator" /\ Len(collab) = Len(images)
        /\ provider = "remote" =>
              generator.class = "ImageGenerator" /\ Len(collab) = Len(images)

(***************************************************************************)
(* Properties of the compositor                                            *)
(***************************************************************************)
\* every panel has the size of the first one
CommonSize(imgs) == \A k \in 1..Len(imgs) : imgs[k].size = imgs[1].size

\* the call returned a canvas onto which every panel was pasted, in order
AllPasted ==
    /\ imgRaised = "none"
    /\ combined_image.kind = "combined"
    /\ Len(combined_image.pastes) = Len(images)
    /\ \A k \in 1..Len(images) : combined_image.pastes[k].image = images[k]

\* the corner panel i (counted from 0) was pasted at
PastedAt(i) == combined_image.pastes[i + 1].at

\* C11: with the layout "horizontal", n >= 1 panels of common size w x h
\* are laid out in a row with a spacing of 10: the canvas is
\* (n*w + (n-1)*10) x h and panel i is pasted at (i*(w+10), 0); three
\* panels of 100 x 100 give a canvas of 320 x 100 with panel 2 at x = 220.
C11_RowLayout ==
    (/\ imgPc = "combined"
     /\ layout_style = "horizontal"
     /\ images # <<>>
     /\ CommonSize(images))
        => LET n == Len(images)
               w == images[1].size[1]
               h == images[1].size[2]
           IN  /\ AllPasted
               /\ combined_image.size = <<n * w + (n - 1) * 10, h>>
               /\ \A i \in 0..(n - 1) : PastedAt(i) = <<i * (w + 10), 0>>
               /\ (n = 3 /\ w = 100 /\ h = 100)
                     => /\ combined_image.size = <<320, 100>>
                        /\ PastedAt(2)[1] = 220

\* three panels of 100 x 100 were combined in a row
C11_Witness ==
    /\ imgPc = "combined"
    /\ layout_style = "horizontal"
    /\ Len(images) = 3
    /\ \A k \in 1..3 : images[k].size = <<100, 100>>
    /\ combined_image.size = <<320, 100>>

\* C12: with the layout "vertical", n >= 1 panels of common size w x h are
\* laid out in a column with a spacing of 10: the canvas is
\* w x (n*h + (n-1)*10) and panel i is pasted at (0, i*(h+10)).
C12_ColumnLayout ==
    (/\ imgPc = "combined"
     /\ layout_style = "vertical"
     /\ images # <<>>
     /\ CommonSize(images))
        => LET n == Len(images)
               w == images[1].size[1]
               h == images[1].size[2]
           IN  /\ AllPasted
               /\ combined_image.size = <<w, n * h + (n - 1) * 10>>
               /\ \A i \in 0..(n - 1) : PastedAt(i) = <<0, i * (h + 10)>>

\* four panels of 256 x 128 were combined in a column
C12_Witness ==
    /\ imgPc = "combined"
    /\ layout_style = "vertical"
    /\ Len(images) = 4
    /\ \A k \in 1..4 : images[k].size = <<256, 128>>
    /\ combined_image.size = <<256, 542>>
    /\ PastedAt(3) = <<0, 414>>

\* ceil(n / 2), by counting: the least r with 2 * r >= n
CeilHalf(n) == CHOOSE r \in 0..n : 2 * r >= n /\ \A q \in 0..(r - 1) : 2 * q < n

\* C13: with the layout "grid", n >= 1 panels of common size w x h are laid
\* out in 2 columns and ceil(n/2) rows with a spacing of 10: the canvas is
\* (2*w+10) x (rows*h + (rows-1)*10), whether n is even or odd, and panel i
\* is pasted at ((i mod 2)*(w+10), (i div 2)*(h+10)); for odd n nothing is
\* pasted into the last cell; five panels of 100 x 100 give a canvas of
\* 210 x 320 with panel 4 at (0, 220).
C13_GridLayout ==
    (/\ imgPc = "combined"
     /\ layout_style = "grid"
     /\ images # <<>>
     /\ CommonSize(images))
        => LET n == Len(images)
               w == images[1].size[1]
               h == images[1].size[2]
               rows == CeilHalf(n)
           IN  /\ AllPasted
               /\ combined_image.size = <<2 * w + 10, rows * h + (rows - 1) * 10>>
               /\ \A i \in 0..(n - 1) :
                     PastedAt(i) = <<(i % 2) * (w + 10), (i \div 2) * (h + 10)>>
               /\ n % 2 = 1
                     => \A i \in 0..(n - 1) : PastedAt(i) # <<w + 10, (rows - 1) * (h + 10)>>
               /\ (n = 5 /\ w = 100 /\ h = 100)
                     => /\ combined_image.size = <<210, 320>>
                        /\ PastedAt(4) = <<0, 220>>

\* five panels of 100 x 100 were combined in a grid
C13_Witness ==
    /\ imgPc = "combined"
    /\ layout_style = "grid"
    /\ Len(images) = 5
    /\ \A k \in 1..5 : images[k].size = <<100, 100>>
    /\ combined_image.size = <<210, 320>>

\* C14: combine_panels_into_comic called with no image returns one
\* placeholder image of 512 x 512 and raises nothing, whatever the layout tag.
C14_EmptyGivesPlaceholder ==
    (imgPc = "combined" /\ images = <<>>)
        => /\ imgRaised = "none"
           /\ combined_image.kind = "placeholder"
           /\ combined_image.size = <<512, 512>>

\* an empty list was combined under a tag other than "horizontal"
C14_Witness ==
    /\ imgPc = "combined"
    /\ images = <<>>
    /\ layout_style = "vertical"
    /\ combined_image.kind = "placeholder"

(***************************************************************************)
(* Properties of the generation run                                        *)
(***************************************************************************)
\* the state of the run, in the vocabulary of the run's life cycle: a
\* rejected submission and a caught exception both end the run as Failed;
\* choosing the provider belongs to the acquisition of the images
RunStateOf(pc) ==
    CASE pc = "Idle" -> "Idle"
      [] pc = "Splitting" -> "Splitting"
      [] pc \in {"Selecting", "Acquiring"} -> "Acquiring"
      [] pc = "Ready" -> "Ready"
      [] pc \in {"Rejected", "Failed"} -> "Failed"

RunEnded(pc) == RunStateOf(pc) \in {"Idle", "Ready", "Failed"}

\* the steps of a run between its states: a submission leaves any ended
\* run, a clear returns to Idle, an exception leaves any state of a run
RunTransitions ==
    ({"Idle", "Ready", "Failed"} \X {"Idle", "Splitting", "Failed"})
        \cup { <<"Splitting", "Acquiring">>, <<"Acquiring", "Ready">>,
               <<"Splitting", "Failed">>, <<"Acquiring", "Failed">> }

\* the states of the run follow one another in order
RunInOrder ==
    RunStateOf(appPc') # RunStateOf(appPc)
        => <<RunStateOf(appPc), RunStateOf(appPc')>> \in RunTransitions

\* the step marks the session as generated
MarksGenerated == session' # session /\ session'.generated

\* the step builds a comic strip
Composites == combined_image' # combined_image /\ combined_image'.kind = "combined"

\* once the run has ended, its data stay as they are until the next
\* submission or clear, which start from a displayed page
RunDataKept ==
    (RunEnded(appPc) /\ mainPc = "running")
        => UNCHANGED <<story, num_panels, panels, images, provider, error, session, appPc>>

\* C15 as stated: a run goes through Idle, Splitting, Acquiring,
\* Compositing, Ready in that order, Failed being reachable from any of
\* them; the session is marked generated only once the strip of the run
\* has been composited, and nothing of the run happens after Ready or Failed.
C15_CompositedBeforeReady ==
    [][/\ RunInOrder
       /\ MarksGenerated
             => /\ combined_image.kind = "combined"
                /\ Len(combined_image.pastes) = Len(session'.images)
       /\ RunDataKept
       /\ RunEnded(appPc) => ~Composites]_vars

\* C15, amended: a run goes through Idle, Splitting, Acquiring, Ready in
\* that order, Failed being reachable from Splitting and Acquiring and,
\* by a rejected submission, from any ended run; the session is marked
\* generated at the end of the acquisition, before any strip is composited;
\* a strip is composited only when the page is displayed after the run has
\* ended, from a session marked generated; the data of an ended run stay
\* as they are until the next submission or clear.
C15_RunOrder ==
    [][/\ RunInOrder
       /\ MarksGenerated
             => /\ RunStateOf(appPc) = "Acquiring"
                /\ RunStateOf(appPc') = "Ready"
                /\ combined_image' = NoImage
       /\ Composites
             => /\ RunEnded(appPc)
                /\ appPc' = appPc
                /\ session.generated
                /\ session' = session
       /\ RunDataKept]_vars

\* a run ended Ready and the page then displayed its strip
C15_Witness ==
    /\ appPc = "Ready"
    /\ mainPc = "displayed"
    /\ session.generated
    /\ session.story = story
    /\ combined_image.kind = "combined"
    /\ Len(combined_image.pastes) = num_panels

\* C16: whatever the text service, the local dependencies and the remote
\* API do, no step of Splitting or Acquiring raises into the handler of
\* generate_comic: a run ends Failed only by a rejected submission, so the
\* handler never catches an exception.
C16_NoStepReachesHandler ==
    /\ error = "none"
    /\ appPc # "Failed"
    /\ RunStateOf(appPc) = "Failed" => appPc = "Rejected"

(***************************************************************************)
(* Properties of the session                                               *)
(***************************************************************************)
\* the step is a submission: the Generate button starts a script run
IsSubmission == mainPc = "displayed" /\ appPc' \in {"Splitting", "Rejected"}

\* the session holds the data of the run in progress, all fields
SessionOfThisRun ==
    /\ session.generation_time \in GenerationTimes
    /\ session = [story |-> story, panels |-> panels, images |-> images,
                  generated |-> TRUE, generation_time |-> session.generation_time]

\* C17 as stated: a submission that follows a successful run discards the
\* data of that run from the session: no story, panel text, image or
\* generated flag of the earlier run is left, whatever becomes of the new run.
C17_SubmissionDiscardsEarlierRun ==
    [][(IsSubmission /\ session.generated) => session' = DefaultSession]_vars

\* C17, amended: the session changes in two ways only.  A clear replaces it
\* by the empty session; a run that ends Ready replaces story, panels,
\* images and the generated flag together by those of that run, so the
\* fields of two runs are never mixed.  A submission itself, every step of
\* a run before its end, a rejected submission and a run that ends Failed
\* leave the data of the earlier run in the session, still marked generated.
C17_ReplacedOnlyOnSuccess ==
    [][/\ IsSubmission => session' = session
       /\ appPc' \in {"Rejected", "Failed", "Splitting", "Selecting", "Acquiring"}
             => session' = session
       /\ session' # session
             => \/ appPc' = "Idle" /\ session' = DefaultSession
                \/ appPc' = "Ready" /\ SessionOfThisRun']_vars

\* a submission that followed a successful run was rejected and the session
\* still holds the earlier run
C17_Witness ==
    /\ appPc = "Rejected"
    /\ mainPc = "displayed"
    /\ session.generated
    /\ session.story # story
    /\ session.images # <<>>

\* C18: the session always holds as many images as panel texts; a run that
\* ends Ready leaves exactly the requested number N >= 1 of both, whatever
\* the provider and whichever panels failed.
C18_PanelsMatchImages ==
    /\ Len(session.panels) = Len(session.images)
    /\ session.generated => Len(session.panels) >= 1
    /\ appPc = "Ready"
          => /\ session.generated
             /\ Len(session.panels) = num_panels
             /\ Len(session.images) = num_panels

\* a remote run of two panels ended Ready with one panel failed and one
\* panel generated
C18_Witness ==
    /\ appPc = "Ready"
    /\ provider = "remote"
    /\ num_panels = 2
    /\ Len(session.images) = 2
    /\ \E k \in 1..2 : CollaboratorFailed(collab[k])
    /\ \E k \in 1..2 : ~CollaboratorFailed(collab[k])

(***************************************************************************)
(* Properties of the validation                                            *)
(***************************************************************************)
\* the message holds the given piece of text
MessageContains(msg, piece) == \E k \in 1..Len(msg) : msg[k] = piece

Blank(s) == \A k \in 1..Len(s) : IsSpace(s[k])

\* C19 as stated: a blank story gets "Please enter a story or idea.", a
\* story shorter than 10 characters a message with "at least 10
\* characters", a story longer than 1000 characters a message with "under
\* 1000 characters", and every other story is valid with an empty message.
C19_OutcomeByLength ==
    appPc = "validated"
        => IF Blank(story) THEN validation = <<FALSE, <<"Please enter a story or idea.">>>>
           ELSE IF Len(story) < 10
           THEN ~validation[1] /\ MessageContains(validation[2], "at least 10 characters")
           ELSE IF Len(story) > 1000
           THEN ~validation[1] /\ MessageContains(validation[2], "under 1000 characters")
           ELSE validation = <<TRUE, <<>>>>

\* C19, amended: the four outcomes are tested in this order, the lower
\* limit on the story without its leading and trailing whitespace and the
\* upper limit on the story as entered: blank, then fewer than 10
\* characters after stripping, then more than 1000 characters in all, then
\* valid; exactly one outcome applies to each story.
C19_OutcomeByStrippedLength ==
    appPc = "validated"
        => IF Blank(story) THEN validation = <<FALSE, <<"Please enter a story or idea.">>>>
           ELSE IF Len(Strip(story)) < 10
           THEN /\ ~validation[1]
                /\ MessageContains(validation[2], "at least 10 characters")
                /\ ~MessageContains(validation[2], "under 1000 characters")
           ELSE IF Len(story) > 1000
           THEN /\ ~validation[1]
                /\ MessageContains(validation[2], "under 1000 characters")
                /\ ~MessageContains(validation[2], "at least 10 characters")
           ELSE validation = <<TRUE, <<>>>>

\* a story of one letter and ten spaces was rejected as too short
C19_Witness ==
    /\ appPc = "validated"
    /\ Len(story) = 11
    /\ Len(Strip(story)) = 1
    /\ MessageContains(validation[2], "at least 10 characters")

\* C20 as stated: a story is accepted exactly when its length is between
\* 10 and 1000 characters, both included.
C20_AcceptedIffLengthInRange ==
    appPc = "validated" => (validation[1] <=> (Len(story) >= 10 /\ Len(story) <= 1000))

\* C20, amended: a story is accepted exactly when it has at least 10
\* characters once its leading and trailing whitespace is stripped and at
\* most 1000 characters as entered.
C20_AcceptedIffStrippedInRange ==
    appPc = "validated"
        => (validation[1] <=> (Len(Strip(story)) >= 10 /\ Len(story) <= 1000))

\* a story of exactly 1000 characters, spaces included, was accepted
C20_Witness ==
    /\ appPc = "validated"
    /\ Len(story) = 1000
    /\ Len(Strip(story)) < 1000
    /\ validation = <<TRUE, <<>>>>

(***************************************************************************)
(* Properties of the error formatting                                      *)
(***************************************************************************)
\* C21: the message for a ConnectionError contains "Unable to connect", the
\* message for a ValueError contains "Invalid input provided", and the
\* message for a RuntimeError contains "unexpected error occurred".
C21_MessagePerErrorType ==
    appPc = "formatted"
        => /\ error = "ConnectionError" => MessageContains(error_msg, "Unable to connect")
           /\ error = "ValueError" => MessageContains(error_msg, "Invalid input provided")
           /\ error = "RuntimeError"
                 => MessageContains(error_msg, "unexpected error occurred")

(***************************************************************************)
(* Properties of the panel loop                                            *)
(***************************************************************************)
IsCall(ev) == ev.op = "generate_image"

IsSleep(ev) == ev.op = "sleep"

\* C22: generate_comic_panels over n descriptions calls generate_image for
\* the panels one after another in index order, sleeps a fixed time (1 s
\* remote, 0.5 s local) right after each of the first n-1 calls and not
\* after the last: n-1 delays in all, none for n = 1, and the call of the
\* last panel is the last thing the loop does.
C22_DelaysBetweenPanels ==
    (imgPc = "panels" /\ imgRaised = "none")
        => LET n == Len(panels)
               calls == SelectSeq(log, IsCall)
               sleeps == SelectSeq(log, IsSleep)
           IN  /\ Len(calls) = n
               /\ \A k \in 1..n : calls[k].panel = k - 1
               /\ Len(sleeps) = IF n = 0 THEN 0 ELSE n - 1
               /\ \A k \in 1..Len(log) :
                     IsSleep(log[k])
                        => /\ k > 1
                           /\ IsCall(log[k - 1])
                           /\ log[k - 1].panel = log[k].panel
                           /\ log[k].panel < n - 1
                           /\ log[k].tenths =
                                 IF generator.class = "ImageGenerator" THEN 10 ELSE 5
               /\ n >= 1 => IsCall(log[Len(log)]) /\ log[Len(log)].panel = n - 1
               /\ Len(images) = n

\* two panels were generated with one delay between them
C22_Witness ==
    /\ imgPc = "panels"
    /\ imgRaised = "none"
    /\ Len(panels) = 2
    /\ Len(log) = 3
    /\ IsSleep(log[2])
    /\ Len(images) = 2

(***************************************************************************)
(* Properties of the local pipeline                                        *)
(***************************************************************************)
\* C23: over any sequence of submissions and displays in one process the
\* diffusion pipeline is loaded at most once; later calls reuse it.
C23_PipelineLoadedOnce == loads \in {"never", "once"}

(***************************************************************************)
(* Termination of the run                                                  *)
(***************************************************************************)
RunInProgress == appPc \in {"Splitting", "Selecting", "Acquiring"}

\* C24: a run that passed validation ends, Ready or Failed, whatever the
\* collaborators do and for every n >= 1; until then it only takes its own
\* steps on the story and panel count it was submitted with: it is never
\* cancelled or restarted in between.
C24_RunEnds ==
    /\ RunInProgress ~> appPc \in {"Ready", "Failed"}
    /\ [][RunInProgress
             => /\ appPc' \in {"Splitting", "Selecting", "Acquiring", "Ready", "Failed"}
                /\ UNCHANGED <<story, num_panels, request, api_url>>
                /\ session' # session => appPc' = "Ready"
                /\ appPc' = appPc => Len(images') > Len(images)]_vars

\* a local run of two panels ended Ready although the pipeline failed on
\* one of them
C24_Witness ==
    /\ appPc = "Ready"
    /\ provider = "local"
    /\ num_panels = 2
    /\ \E k \in 1..2 : collab[k].kind = "pipeline_error"
    /\ session.generated

\* no call was made to the text collaborator or to an image collaborator
NoCollaboratorCalled ==
    /\ probe = "unused"
    /\ reply = NoReply
    /\ collab = <<>>
    /\ sent = <<>>
    /\ log = <<>>

\* C26: a rejected submission, and a run that ends in the handler of
\* generate_comic, leave story, panels, images, generated flag and generation
\* time of the session as they were before the submission: the submission
\* itself and every step of a run but the one that ends it Ready leave the
\* session alone, so an earlier successful run stays in it, marked
\* generated; after a rejected submission no collaborator has been called.
C26_SessionKeptOnRejectOrFailure ==
    /\ [](appPc = "Rejected" => NoCollaboratorCalled)
    /\ [][/\ IsSubmission => session' = session
          /\ (RunInProgress /\ appPc' # "Ready") => session' = session
          /\ appPc' \in {"Rejected", "Failed"} => session' = session]_vars

\* a submission that followed a successful run was rejected before any
\* collaborator was called; the session holds the earlier run with its time
C26_Witness ==
    /\ appPc = "Rejected"
    /\ validation[1] = FALSE
    /\ session.generated
    /\ session.story # story
    /\ session.images # <<>>
    /\ session.generation_time = 2
    /\ NoCollaboratorCalled

\* C27: with the diffusers/torch imports failed, LocalImageGenerator() does
\* not raise: once generate_comic has constructed it, nothing was caught, the
\* generator exists with its pipeline unset, is_available() is False and
\* the run went on to the remote or the placeholder provider.
C27_ConstructibleWithoutImports ==
    (ProviderStagePassed /\ ~diffusion_available) =>
        /\ error # "NameError"
        /\ local_generator # NoGenerator
        /\ local_generator.pipeline = "None"
        /\ ~is_available(local_generator)
        /\ provider \in {"remote", "placeholder"}

\* C28: in the fallback splitter a story of fewer words than n gives
\* words_per_panel = 0, no word in any of the first n-1 panels and all the
\* words in the last one; a story of at least n words gives every panel at
\* least one word.
C28_FewWordsGoToLastPanel ==
    splitPc = "fallback" =>
        /\ Len(words) < num_panels =>
              /\ words_per_panel(words, num_panels) = 0
              /\ \A k \in 1..(num_panels - 1) :
                    /\ SpanLen(k) = 0
                    /\ panels[k] = ScenePrefix(k) \o <<":", " ">>
              /\ Slice(words, spans[num_panels][1], spans[num_panels][2]) = words
        /\ Len(words) >= num_panels =>
              \A k \in 1..num_panels :
                  /\ SpanLen(k) >= 1
                  /\ Slice(words, spans[k][1], spans[k][2]) # <<>>
                  /\ Len(panels[k]) > Len(ScenePrefix(k)) + 2

\* two words for three panels: the first two panels are empty labels, the
\* third has both words
C28_Witness ==
    /\ splitPc = "fallback"
    /\ num_panels = 3
    /\ Len(words) = 2
    /\ spans = <<(<<0, 0>>), (<<0, 0>>), (<<0, 2>>)>>
    /\ panels[1] = <<"S", "c", "e", "n", "e", " ", "1", ":", " ">>

\* the rectangle panel k (counted from 1) covers on the canvas: left, top,
\* right and bottom edge, right and bottom excluded
PastedRect(k) ==
    LET at == combined_image.pastes[k].at
        size == combined_image.pastes[k].image.size
    IN  [left |-> at[1], top |-> at[2], right |-> at[1] + size[1], bottom |-> at[2] + size[2]]

RectsDisjoint(r, q) ==
    \/ r.right <= q.left
    \/ q.right <= r.left
    \/ r.bottom <= q.top
    \/ q.bottom <= r.top

\* q is the next rectangle to the right of r in r's row
NextInRow(r, q, all) ==
    /\ q.top = r.top
    /\ q.left > r.left
    /\ \A m \in all : ~(m.top = r.top /\ m.left > r.left /\ m.left < q.left)

\* q is the next rectangle below r in r's column
NextInColumn(r, q, all) ==
    /\ q.left = r.left
    /\ q.top > r.top
    /\ \A m \in all : ~(m.left = r.left /\ m.top > r.top /\ m.top < q.top)

\* C29: under every layout tag, n >= 1 panels of one common size are pasted
\* each inside the canvas, no two of them overlap, and two panels next to
\* each other in a row or in a column are exactly 10 pixels apart.
C29_PanelsInsideDisjointSpaced ==
    (imgPc = "combined" /\ images # <<>> /\ CommonSize(images))
        => /\ AllPasted
           /\ LET n == Len(images)
                  rects == {PastedRect(k) : k \in 1..n}
              IN  /\ \A k \in 1..n :
                        /\ PastedRect(k).left >= 0
                        /\ PastedRect(k).top >= 0
                        /\ PastedRect(k).right <= combined_image.size[1]
                        /\ PastedRect(k).bottom <= combined_image.size[2]
                  /\ \A j, k \in 1..n :
                        j # k => RectsDisjoint(PastedRect(j), PastedRect(k))
                  /\ \A r, q \in rects :
                        /\ NextInRow(r, q, rects) => q.left - r.right = 10
                        /\ NextInColumn(r, q, rects) => q.top - r.bottom = 10

\* five panels of 256 x 128 in a grid: the last one alone in the third row
C29_Witness ==
    /\ imgPc = "combined"
    /\ layout_style = "grid"
    /\ Len(images) = 5
    /\ CommonSize(images)
    /\ images[1].size = <<256, 128>>
    /\ combined_image.size = <<522, 404>>
    /\ PastedRect(5) = [left |-> 0, top |-> 276, right |-> 256, bottom |-> 404]
    /\ PastedRect(4) = [left |-> 266, top |-> 138, right |-> 522, bottom |-> 266]

\* the canvas and the corners of a row of the panels, sized by the first one
IsRow ==
    LET n == Len(images)
        w == images[1].size[1]
        h == images[1].size[2]
    IN  /\ combined_image.size = <<n * w + (n - 1) * 10, h>>
        /\ \A i \in 0..(n - 1) : PastedAt(i) = <<i * (w + 10), 0>>

\* the canvas and the corners of a column of the panels
IsColumn ==
    LET n == Len(images)
        w == images[1].size[1]
        h == images[1].size[2]
    IN  /\ combined_image.size = <<w, n * h + (n - 1) * 10>>
        /\ \A i \in 0..(n - 1) : PastedAt(i) = <<0, i * (h + 10)>>

\* the canvas and the corners of a grid of 2 columns
IsGrid ==
    LET n == Len(images)
        w == images[1].size[1]
        h == images[1].size[2]
        rows == CeilHalf(n)
    IN  /\ combined_image.size = <<2 * w + 10, rows * h + (rows - 1) * 10>>
        /\ \A i \in 0..(n - 1) :
              PastedAt(i) = <<(i % 2) * (w + 10), (i \div 2) * (h + 10)>>

\* C30: the row is made for the tag "horizontal" and for no other tag, the
\* column for "vertical" and for no other tag; every other tag, "grid",
\* "row", "column" or a tag unknown to the page, gives the grid of 2
\* columns, and no tag makes the call raise.  (A row of one or two panels
\* is also the grid of them, a column of one panel is also the row of it.)
C30_OnlyTwoTagsLeaveTheGrid ==
    (imgPc = "combined" /\ images # <<>>)
        => /\ AllPasted
           /\ layout_style = "horizontal" => IsRow
           /\ layout_style = "vertical" => IsColumn
           /\ layout_style \notin {"horizontal", "vertical"} => IsGrid
           /\ (layout_style # "horizontal" /\ Len(images) >= 3) => ~IsRow
           /\ (layout_style # "vertical" /\ Len(images) >= 2) => ~IsColumn

\* three panels under the tag "row" were laid out as a grid, not in a row
C30_Witness ==
    /\ imgPc = "combined"
    /\ layout_style = "row"
    /\ Len(images) = 3
    /\ images[1].size = <<100, 100>>
    /\ combined_image.size = <<210, 210>>
    /\ PastedAt(2) = <<0, 110>>

====
